---- MODULE Spec2Model ----
(***************************************************************************)
(* Session orchestration of the data-quality chat front end:               *)
(* App.js (status, conversation log, data-source registration, chat        *)
(* turns, quick actions), ApiService (error classification), Sidebar.js    *)
(* (load form) and ChatInterface.js (text input, message rendering).       *)
(*                                                                         *)
(* Texts are sequences of tokens; a template literal is the concatenation  *)
(* of its literal chunks and its interpolated values, " " is a blank.      *)
(***************************************************************************)
EXTENDS Integers, Sequences, FiniteSets, TLC

VARIABLES
    appStatus,      \* App.js: appStatus
    messages,       \* App.js: messages (the conversation log)
    isDataLoaded,   \* App.js: isDataLoaded
    dataPath,       \* App.js: dataPath
    inputValue,     \* ChatInterface.js: inputValue
    inputPath,      \* Sidebar.js: inputPath
    sidebarLoading, \* Sidebar.js: isLoading
    pending,        \* gateway calls issued and not yet completed
    clock,          \* the last value read from Date.now()
    started,        \* the mount effect has run
    issued,         \* number of gateway calls issued so far
    exits,          \* per call: completion transitions of appStatus performed
    view            \* the message being rendered (rendering specification)

vars == <<appStatus, messages, isDataLoaded, dataPath, inputValue, inputPath,
          sidebarLoading, pending, clock, started, issued, exits, view>>

----------------------------------------------------------------------------
(* Bounds *)

MaxCalls == 2
MaxTicks == 1
MaxResults == 2

----------------------------------------------------------------------------
(* Texts *)

Blank == " "

RECURSIVE TrimStart(_)
TrimStart(s) ==
    IF s # <<>> /\ Head(s) = Blank THEN TrimStart(Tail(s)) ELSE s

RECURSIVE TrimEnd(_)
TrimEnd(s) ==
    IF s # <<>> /\ s[Len(s)] = Blank THEN TrimEnd(SubSeq(s, 1, Len(s) - 1)) ELSE s

\* mutant: only the leading blanks are stripped
Trim_StartOnly(s) == TrimStart(s)

Trim(s) == TrimEnd(TrimStart(s))

Contains(s, t) ==
    \E i \in 1..(Len(s) + 1) :
        /\ i + Len(t) - 1 <= Len(s)
        /\ SubSeq(s, i, i + Len(t) - 1) = t

Truthy(s) == s # <<>>

----------------------------------------------------------------------------
(* ApiService: the response interceptor's error branch *)

NoData == [has |-> FALSE, hasDetail |-> FALSE, detail |-> <<>>,
           hasMessage |-> FALSE, message |-> <<>>]

FieldValues == {<<>>, <<"detail text">>}
MessageValues == {<<>>, <<"message text">>}

ErrorData ==
    {NoData} \cup
    { [has |-> TRUE, hasDetail |-> hd, detail |-> d, hasMessage |-> hm, message |-> m] :
        hd \in BOOLEAN, d \in FieldValues, hm \in BOOLEAN, m \in MessageValues }

WellFormedData(d) ==
    /\ (~d.hasDetail => d.detail = <<>>)
    /\ (~d.hasMessage => d.message = <<>>)

HttpErrorStatus == {"404", "500"}

ResponseErrors ==
    { [response |-> TRUE, status |-> st, data |-> d, request |-> TRUE,
       code |-> "ERR_BAD_RESPONSE", message |-> <<"Request failed with status code ", st>>] :
        st \in HttpErrorStatus, d \in {x \in ErrorData : WellFormedData(x)} }

NoResponseErrors ==
    { [response |-> FALSE, status |-> "0", data |-> NoData, request |-> TRUE,
       code |-> c, message |-> m] :
        c \in {"ERR_NETWORK"}, m \in {<<"Network Error">>} } \cup
    { [response |-> FALSE, status |-> "0", data |-> NoData, request |-> TRUE,
       code |-> "ECONNABORTED", message |-> <<"timeout of 30000ms exceeded">>] }

SetupErrors ==
    { [response |-> FALSE, status |-> "0", data |-> NoData, request |-> FALSE,
       code |-> "ERR_BAD_OPTION", message |-> m] : m \in {<<>>, <<"setup failed">>} }

AxiosErrors == ResponseErrors \cup NoResponseErrors \cup SetupErrors

\* the failures the gateway calls of the session run into
GatewayFailures ==
    { e \in AxiosErrors :
        \/ ~e.response /\ e.request
        \/ e.response /\ e.status = "404" /\ e.data.hasDetail /\ Truthy(e.data.detail)
                      /\ ~e.data.hasMessage }

ServerErrorText(status) == <<"Server error: ", status>>

CannotConnectText == <<"Cannot connect to server. Please make sure the backend is running.">>

UnexpectedText == <<"An unexpected error occurred">>

\* mutant: data.message is looked at before data.detail
InterceptError_MessageFirst(error) ==
    IF error.response
    THEN IF error.data.has /\ error.data.hasMessage /\ Truthy(error.data.message)
         THEN error.data.message
         ELSE IF error.data.has /\ error.data.hasDetail /\ Truthy(error.data.detail)
              THEN error.data.detail
              ELSE ServerErrorText(error.status)
    ELSE IF error.request
         THEN CannotConnectText
         ELSE IF Truthy(error.message) THEN error.message ELSE UnexpectedText

\* mutant: without the error.request branch
InterceptError_NoRequestBranch(error) ==
    IF error.response
    THEN IF error.data.has /\ error.data.hasDetail /\ Truthy(error.data.detail)
         THEN error.data.detail
         ELSE IF error.data.has /\ error.data.hasMessage /\ Truthy(error.data.message)
              THEN error.data.message
              ELSE ServerErrorText(error.status)
    ELSE IF Truthy(error.message) THEN error.message ELSE UnexpectedText

InterceptError(error) ==
    IF error.response
    THEN IF error.data.has /\ error.data.hasDetail /\ Truthy(error.data.detail)
         THEN error.data.detail
         ELSE IF error.data.has /\ error.data.hasMessage /\ Truthy(error.data.message)
              THEN error.data.message
              ELSE ServerErrorText(error.status)
    ELSE IF error.request
         THEN CannotConnectText
         ELSE IF Truthy(error.message) THEN error.message ELSE UnexpectedText

----------------------------------------------------------------------------
(* App.js: messages *)

WelcomeId == 1

WelcomeText == <<"Hello! I'm your Marketing Campaign Data Quality Agent. I can help you validate, fix, and analyze your campaign data. To get started, please upload a CSV file with your marketing campaign data.">>

Button(text, action, style) ==
    [type |-> "button", text |-> text, action |-> action, style |-> style]

\* turn is bookkeeping: the gateway call a message belongs to (0: none yet)
Message(id, type, content, timestamp, hasComponents, components, hasToolResults, toolResults, turn) ==
    [id |-> id, type |-> type, content |-> content, timestamp |-> timestamp,
     hasComponents |-> hasComponents, components |-> components,
     hasToolResults |-> hasToolResults, toolResults |-> toolResults, turn |-> turn]

WelcomeMessage(now) ==
    Message(WelcomeId, "agent", WelcomeText, now, TRUE, <<>>, FALSE, <<>>, 0)

UploadSuccessButtons ==
    << Button("Validate Data Quality", "validate_data", "primary"),
       Button("Detect Anomalies", "detect_anomalies", "secondary"),
       Button("Get Data Insights", "get_insights", "accent") >>

UploadSuccessMessage(filePath, now, turn) ==
    Message(now, "agent",
            <<"Great! I've loaded your data from \"">> \o filePath \o
            <<"\". I can now help you validate, analyze, and fix any issues in your marketing campaign data. What would you like me to do first?">>,
            now, TRUE, UploadSuccessButtons, FALSE, <<>>, turn)

\* mutant: the error text is left out of the message
UploadErrorMessage_NoText(errorText, now, turn) ==
    Message(now, "agent",
            <<"Sorry, I couldn't load the data file. Please make sure the file path is correct and the file exists.">>,
            now, TRUE, <<>>, FALSE, <<>>, turn)

UploadErrorMessage(errorText, now, turn) ==
    Message(now, "agent",
            <<"Sorry, I couldn't load the data file. Please make sure the file path is correct and the file exists. Error: ">> \o errorText,
            now, TRUE, <<>>, FALSE, <<>>, turn)

UserMessage(text, now, turn) ==
    Message(now, "user", text, now, FALSE, <<>>, FALSE, <<>>, turn)

\* mutant: the fields are copied without the || [] defaults
AgentMessage_NoDefault(response, now, turn) ==
    Message(now + 1, "agent", response.message, now, response.hasComponents,
            IF response.hasComponents THEN response.components ELSE <<>>,
            response.hasToolResults,
            IF response.hasToolResults THEN response.tool_results ELSE <<>>,
            turn)

\* mutant: the reply is stamped with the instant before the one read
AgentMessage_EarlyTimestamp(response, now, turn) ==
    Message(now + 1, "agent", response.message, now - 1, TRUE,
            IF response.hasComponents THEN response.components ELSE <<>>,
            TRUE,
            IF response.hasToolResults THEN response.tool_results ELSE <<>>,
            turn)

\* response.components || [] and response.tool_results || []
AgentMessage(response, now, turn) ==
    Message(now + 1, "agent", response.message, now, TRUE,
            IF response.hasComponents THEN response.components ELSE <<>>,
            TRUE,
            IF response.hasToolResults THEN response.tool_results ELSE <<>>,
            turn)

ChatErrorMessage(errorText, now, turn) ==
    Message(now + 1, "agent",
            <<"Sorry, I encountered an error processing your request: ">> \o errorText,
            now, TRUE, <<>>, FALSE, <<>>, turn)

----------------------------------------------------------------------------
(* App.js: handleQuickAction *)

ActionMapKeys ==
    {"validate_data", "detect_anomalies", "get_insights", "fix_data", "fix_anomalies"}

ActionMap(action) ==
    CASE action = "validate_data" -> <<"Please validate my data quality">>
      [] action = "detect_anomalies" -> <<"Please detect any anomalies in my data">>
      [] action = "get_insights" -> <<"Please give me insights about my campaign data">>
      [] action = "fix_data" -> <<"Please fix the data quality issues">>
      [] action = "fix_anomalies" -> <<"Please fix the detected anomalies">>

\* actionMap is an object literal: a lookup also finds the properties every
\* object inherits from Object.prototype
ObjectPrototypeKeys ==
    {"constructor", "hasOwnProperty", "isPrototypeOf", "propertyIsEnumerable",
     "toLocaleString", "toString", "valueOf", "__proto__", "__defineGetter__",
     "__defineSetter__", "__lookupGetter__", "__lookupSetter__"}

\* the inherited value (a function, or the prototype object): truthy, and not a text
InheritedProperty(key) == <<"Object.prototype.", key>>

\* actionMap[action] || action
ResolveAction(action) ==
    IF action \in ActionMapKeys THEN ActionMap(action)
    ELSE IF action \in ObjectPrototypeKeys THEN InheritedProperty(action)
    ELSE <<action>>

----------------------------------------------------------------------------
(* ChatInterface.js, MessageBubble: renderComponent, ComponentsContainer,
   ButtonGroup *)

Table(title, headers, rows) ==
    [type |-> "table", title |-> title, headers |-> headers, rows |-> rows]

\* chart_type "" stands for a chart without chart_type
Chart(chart_type, title, data) ==
    [type |-> "chart", chart_type |-> chart_type, title |-> title, data |-> data]

\* an artifact with a tag the renderer has no case for
OtherArtifact(type, title) == [type |-> type, title |-> title]

Null == [element |-> "null"]

\* keys are the array indices, counted from 0
ActionButton(key, text, onClick, style, size) ==
    [element |-> "ActionButton", key |-> key, text |-> text, onClick |-> onClick,
     style |-> style, size |-> size]

\* mutant: the chart case is missing from the switch
RenderComponent_NoChart(component, index) ==
    CASE component.type = "table" ->
            [element |-> "DataTable", key |-> index, title |-> component.title,
             headers |-> component.headers, rows |-> component.rows]
      [] component.type = "button" ->
            ActionButton(index, component.text, component.action, component.style, "medium")
      [] OTHER -> Null

RenderComponent(component, index) ==
    CASE component.type = "table" ->
            [element |-> "DataTable", key |-> index, title |-> component.title,
             headers |-> component.headers, rows |-> component.rows]
      [] component.type = "chart" ->
            [element |-> "DataChart", key |-> index,
             type |-> IF component.chart_type # "" THEN component.chart_type ELSE "bar",
             title |-> component.title, data |-> component.data]
      [] component.type = "button" ->
            ActionButton(index, component.text, component.action, component.style, "medium")
      [] OTHER -> Null

IsButton(c) == c.type = "button"

\* message.components && message.components.length > 0 &&
\*     message.components.map((component, index) => renderComponent(component, index))
Inline(message) ==
    IF message.hasComponents /\ Len(message.components) > 0
    THEN [j \in 1..Len(message.components) |->
              RenderComponent(message.components[j], j - 1)]
    ELSE <<>>

\* mutant: the strip shows the buttons last to first
Strip_Reversed(message) ==
    IF message.hasComponents /\ Len(SelectSeq(message.components, IsButton)) > 0
    THEN LET buttons == SelectSeq(message.components, IsButton)
         IN [j \in 1..Len(buttons) |->
                ActionButton(j - 1, buttons[Len(buttons) + 1 - j].text,
                             buttons[Len(buttons) + 1 - j].action,
                             buttons[Len(buttons) + 1 - j].style, "small")]
    ELSE <<>>

\* message.components && message.components.filter(c => c.type === 'button').length > 0 &&
\*     message.components.filter(c => c.type === 'button').map((button, index) => ...)
Strip(message) ==
    IF message.hasComponents /\ Len(SelectSeq(message.components, IsButton)) > 0
    THEN LET buttons == SelectSeq(message.components, IsButton)
         IN [j \in 1..Len(buttons) |->
                ActionButton(j - 1, buttons[j].text, buttons[j].action,
                             buttons[j].style, "small")]
    ELSE <<>>


----------------------------------------------------------------------------
(* Inputs *)

DefaultInputPath == <<"/c:/Project/AIEngg/DataQualityAgentNew/sample_data/marketing_campaigns.csv">>

InputPaths == {DefaultInputPath, <<Blank>>}

InputValues == {<<>>, <<Blank, "how many rows?", Blank>>}

WelcomeSuggestions ==
    { <<"Load sample marketing campaign data for demonstration">>,
      <<"How does this data quality agent work?">>,
      <<"What types of data quality issues can you detect?">> }

QuickActionSuggestions ==
    {"validate_data", "detect_anomalies", "get_insights", "check_completeness"}

\* bodies of successful /chat responses
ChatResponses ==
    { [message |-> <<"Your data looks fine.">>, hasComponents |-> FALSE,
       components |-> <<>>,
       hasToolResults |-> FALSE, tool_results |-> <<>>] }

ClockStart == WelcomeId + 1

Busy == {"connecting", "loading", "processing"}

\* Date.now() never runs backwards: the values a handler may read next
Now == clock..(ClockStart + MaxTicks)

Call(n, op, arg, via) == [n |-> n, op |-> op, arg |-> arg, via |-> via]

NoView == [phase |-> "none"]

----------------------------------------------------------------------------
(* Initial state: App, Sidebar and ChatInterface constructed, not yet mounted *)

Init ==
    /\ appStatus = "idle"
    /\ clock = ClockStart
    /\ messages = <<WelcomeMessage(ClockStart)>>
    /\ isDataLoaded = FALSE
    /\ dataPath = <<>>
    /\ inputValue = <<>>
    /\ inputPath = DefaultInputPath
    /\ sidebarLoading = FALSE
    /\ pending = {}
    /\ started = FALSE
    /\ issued = 0
    /\ exits = <<>>
    /\ view = NoView

\* ChatInterface.js: isLoading prop (App.js: appStatus === 'processing')
IsLoading == appStatus = "processing"

\* ChatInterface.js: the welcome area replaces the message list
WelcomeAreaShown == Len(messages) = 1 /\ ~isDataLoaded

\* the calls the user has started (the mount effect's health check is call 1)
UserCalls == issued - 1

Issue(call) ==
    /\ pending' = pending \cup {call}
    /\ issued' = issued + 1
    /\ exits' = Append(exits, 0)

Complete(call) ==
    /\ call \in pending
    /\ pending' = pending \ {call}

Exit(call, status) ==
    /\ appStatus' = status
    /\ exits' = [exits EXCEPT ![call.n] = @ + 1]

----------------------------------------------------------------------------
(* App.js: useEffect / checkBackendHealth *)

\* mutant: the call is issued without setAppStatus('connecting') before it
Mount_NoStatus ==
    /\ ~started
    /\ started' = TRUE
    /\ Issue(Call(issued + 1, "health", <<>>, "mount"))
    /\ UNCHANGED <<appStatus, messages, isDataLoaded, dataPath, inputValue, inputPath,
                   sidebarLoading, clock, view>>

Mount ==
    /\ ~started
    /\ started' = TRUE
    /\ appStatus' = "connecting"
    /\ Issue(Call(issued + 1, "health", <<>>, "mount"))
    /\ UNCHANGED <<messages, isDataLoaded, dataPath, inputValue, inputPath,
                   sidebarLoading, clock, view>>

\* mutant: the health check's success is not recorded in appStatus
HealthOk_NoStatus(call) ==
    /\ call.op = "health"
    /\ Complete(call)
    /\ UNCHANGED <<appStatus, exits, messages, isDataLoaded, dataPath, inputValue,
                   inputPath, sidebarLoading, clock, started, issued, view>>

HealthOk(call) ==
    /\ call.op = "health"
    /\ Complete(call)
    /\ Exit(call, "connected")
    /\ UNCHANGED <<messages, isDataLoaded, dataPath, inputValue, inputPath,
                   sidebarLoading, clock, started, issued, view>>

\* mutant: the catch block sets the status the other catch blocks set
HealthFail_Error(call, error) ==
    /\ call.op = "health"
    /\ Complete(call)
    /\ Exit(call, "error")
    /\ UNCHANGED <<messages, isDataLoaded, dataPath, inputValue, inputPath,
                   sidebarLoading, clock, started, issued, view>>

HealthFail(call, error) ==
    /\ call.op = "health"
    /\ Complete(call)
    /\ Exit(call, "disconnected")
    /\ UNCHANGED <<messages, isDataLoaded, dataPath, inputValue, inputPath,
                   sidebarLoading, clock, started, issued, view>>

----------------------------------------------------------------------------
(* App.js: handleDataUpload; Sidebar.js: handleLoad, handleKeyPress *)

\* mutant: a registration is refused while an operation is in flight
HandleDataUpload_NotWhileBusy(filePath, via) ==
    /\ appStatus \notin {"connecting", "loading", "processing"}
    /\ UserCalls < MaxCalls
    /\ appStatus' = "loading"
    /\ Issue(Call(issued + 1, "upload", filePath, via))
    /\ UNCHANGED <<messages, isDataLoaded, dataPath, inputValue, inputPath,
                   clock, started, view>>

HandleDataUpload(filePath, via) ==
    /\ UserCalls < MaxCalls
    /\ appStatus' = "loading"
    /\ Issue(Call(issued + 1, "upload", filePath, via))
    /\ UNCHANGED <<messages, isDataLoaded, dataPath, inputValue, inputPath,
                   clock, started, view>>

SetInputPath(path) ==
    /\ started
    /\ ~isDataLoaded
    /\ UserCalls < MaxCalls
    /\ path # inputPath
    /\ inputPath' = path
    /\ UNCHANGED <<appStatus, messages, isDataLoaded, dataPath, inputValue,
                   sidebarLoading, pending, clock, started, issued, exits, view>>

\* LoadButton: disabled={!inputPath.trim() || isLoading}
LoadClick ==
    /\ started
    /\ ~isDataLoaded
    /\ Trim(inputPath) # <<>>
    /\ ~sidebarLoading
    /\ sidebarLoading' = TRUE
    /\ HandleDataUpload(Trim(inputPath), "handleLoad")

\* PathInput: onKeyPress Enter calls handleLoad
LoadEnter ==
    /\ started
    /\ ~isDataLoaded
    /\ Trim(inputPath) # <<>>
    /\ sidebarLoading' = TRUE
    /\ HandleDataUpload(Trim(inputPath), "handleLoad")

\* Sidebar.js: Run Full Analysis calls onDataUpload('')
RunFullAnalysis ==
    /\ started
    /\ isDataLoaded
    /\ UNCHANGED sidebarLoading
    /\ HandleDataUpload(<<>>, "runFullAnalysis")

UploadOk(call, now) ==
    /\ call.op = "upload"
    /\ Complete(call)
    /\ clock' = now
    /\ dataPath' = call.arg
    /\ isDataLoaded' = TRUE
    /\ Exit(call, "connected")
    /\ messages' = Append(messages, UploadSuccessMessage(call.arg, now, call.n))
    /\ sidebarLoading' = IF call.via = "handleLoad" THEN FALSE ELSE sidebarLoading
    /\ UNCHANGED <<inputValue, inputPath, started, issued, view>>

\* mutant: a failed registration is sent again, once
UploadFail_Retry(call, error, now) ==
    /\ call.op = "upload"
    /\ call \in pending
    /\ clock' = now
    /\ messages' = Append(messages, UploadErrorMessage(InterceptError(error), now, call.n))
    /\ sidebarLoading' = IF call.via = "handleLoad" THEN FALSE ELSE sidebarLoading
    /\ IF call.via # "retry"
       THEN /\ pending' = (pending \ {call}) \cup {Call(issued + 1, "upload", call.arg, "retry")}
            /\ issued' = issued + 1
            /\ exits' = Append([exits EXCEPT ![call.n] = @ + 1], 0)
            /\ appStatus' = "loading"
       ELSE /\ pending' = pending \ {call}
            /\ Exit(call, "error")
            /\ UNCHANGED issued
    /\ UNCHANGED <<isDataLoaded, dataPath, inputValue, inputPath, started, view>>

\* mutant: the catch block clears the data-loaded flag
UploadFail_ResetsFlag(call, error, now) ==
    /\ call.op = "upload"
    /\ Complete(call)
    /\ clock' = now
    /\ Exit(call, "error")
    /\ messages' = Append(messages, UploadErrorMessage(InterceptError(error), now, call.n))
    /\ sidebarLoading' = IF call.via = "handleLoad" THEN FALSE ELSE sidebarLoading
    /\ isDataLoaded' = FALSE
    /\ UNCHANGED <<dataPath, inputValue, inputPath, started, issued, view>>

\* mutant: the catch block leaves appStatus as it is
UploadFail_NoStatus(call, error, now) ==
    /\ call.op = "upload"
    /\ Complete(call)
    /\ clock' = now
    /\ messages' = Append(messages, UploadErrorMessage(InterceptError(error), now, call.n))
    /\ sidebarLoading' = IF call.via = "handleLoad" THEN FALSE ELSE sidebarLoading
    /\ UNCHANGED <<appStatus, exits, isDataLoaded, dataPath, inputValue, inputPath,
                   started, issued, view>>

UploadFail(call, error, now) ==
    /\ call.op = "upload"
    /\ Complete(call)
    /\ clock' = now
    /\ Exit(call, "error")
    /\ messages' = Append(messages, UploadErrorMessage(InterceptError(error), now, call.n))
    /\ sidebarLoading' = IF call.via = "handleLoad" THEN FALSE ELSE sidebarLoading
    /\ UNCHANGED <<isDataLoaded, dataPath, inputValue, inputPath, started,
                   issued, view>>

----------------------------------------------------------------------------
(* App.js: handleSendMessage, handleQuickAction; ChatInterface.js: handleSubmit *)

\* mutant: the user message is put in front of the log
HandleSendMessage_Prepend(message, now) ==
    /\ UserCalls < MaxCalls
    /\ clock' = now
    /\ messages' = <<UserMessage(message, now, issued + 1)>> \o messages
    /\ appStatus' = "processing"
    /\ Issue(Call(issued + 1, "chat", message, "handleSendMessage"))
    /\ UNCHANGED <<isDataLoaded, dataPath, inputPath, sidebarLoading, started, view>>

HandleSendMessage(message, now) ==
    /\ UserCalls < MaxCalls
    /\ clock' = now
    /\ messages' = Append(messages, UserMessage(message, now, issued + 1))
    /\ appStatus' = "processing"
    /\ Issue(Call(issued + 1, "chat", message, "handleSendMessage"))
    /\ UNCHANGED <<isDataLoaded, dataPath, inputPath, sidebarLoading, started, view>>

HandleQuickAction(action, now) ==
    HandleSendMessage(ResolveAction(action), now)

\* MessageInput: onChange, disabled={isLoading}
SetInputValue(value) ==
    /\ started
    /\ ~IsLoading
    /\ UserCalls < MaxCalls
    /\ value # inputValue
    /\ inputValue' = value
    /\ UNCHANGED <<appStatus, messages, isDataLoaded, dataPath, inputPath,
                   sidebarLoading, pending, clock, started, issued, exits, view>>

HandleSubmit(now) ==
    /\ started
    /\ Trim(inputValue) # <<>>
    /\ ~IsLoading
    /\ inputValue' = <<>>
    /\ HandleSendMessage(Trim(inputValue), now)

\* QuickActions shown while !isDataLoaded && messages.length === 1
WelcomeSuggestion(text, now) ==
    /\ started
    /\ ~isDataLoaded
    /\ Len(messages) = 1
    /\ UNCHANGED inputValue
    /\ HandleSendMessage(text, now)

\* QuickActions shown while isDataLoaded
QuickSuggestion(action, now) ==
    /\ started
    /\ isDataLoaded
    /\ UNCHANGED inputValue
    /\ HandleQuickAction(action, now)

\* MessageBubble: a button artifact, inline copy or ButtonGroup copy
ButtonClick(i, j, copy, now) ==
    /\ started
    /\ ~WelcomeAreaShown
    /\ i \in 1..Len(messages)
    /\ messages[i].hasComponents
    /\ j \in 1..Len(messages[i].components)
    /\ messages[i].components[j].type = "button"
    /\ UNCHANGED inputValue
    /\ copy \in {"inline", "strip"}
    /\ HandleQuickAction(messages[i].components[j].action, now)

\* mutant: the status is not set after the reply
ChatOk_NoStatus(call, response, now) ==
    /\ call.op = "chat"
    /\ Complete(call)
    /\ clock' = now
    /\ messages' = Append(messages, AgentMessage(response, now, call.n))
    /\ UNCHANGED <<appStatus, exits, isDataLoaded, dataPath, inputValue, inputPath,
                   sidebarLoading, started, issued, view>>

ChatOk(call, response, now) ==
    /\ call.op = "chat"
    /\ Complete(call)
    /\ clock' = now
    /\ messages' = Append(messages, AgentMessage(response, now, call.n))
    /\ Exit(call, "connected")
    /\ UNCHANGED <<isDataLoaded, dataPath, inputValue, inputPath, sidebarLoading,
                   started, issued, view>>

\* mutant: the catch block appends no message
ChatFail_NoMessage(call, error, now) ==
    /\ call.op = "chat"
    /\ Complete(call)
    /\ clock' = now
    /\ Exit(call, "error")
    /\ UNCHANGED <<messages, isDataLoaded, dataPath, inputValue, inputPath, sidebarLoading,
                   started, issued, view>>

ChatFail(call, error, now) ==
    /\ call.op = "chat"
    /\ Complete(call)
    /\ clock' = now
    /\ Exit(call, "error")
    /\ messages' = Append(messages, ChatErrorMessage(InterceptError(error), now, call.n))
    /\ UNCHANGED <<isDataLoaded, dataPath, inputValue, inputPath, sidebarLoading,
                   started, issued, view>>

\* the failures the calls of the session run into: a rejected registration
\* (missing or invalid path) and a chat turn without response
UploadFailures == {e \in GatewayFailures : e.response}
ChatFailures == {e \in GatewayFailures : ~e.response}

Next ==
    \/ Mount
    \/ \E call \in pending : HealthOk(call)
    \/ \E call \in pending, error \in GatewayFailures : HealthFail(call, error)
    \/ \E path \in InputPaths : SetInputPath(path)
    \/ LoadClick
    \/ LoadEnter
    \/ RunFullAnalysis
    \/ \E call \in pending, now \in Now : UploadOk(call, now)
    \/ \E call \in pending, error \in UploadFailures, now \in Now : UploadFail(call, error, now)
    \/ \E value \in InputValues : SetInputValue(value)
    \/ \E now \in Now : HandleSubmit(now)
    \/ \E text \in WelcomeSuggestions, now \in Now : WelcomeSuggestion(text, now)
    \/ \E action \in QuickActionSuggestions, now \in Now : QuickSuggestion(action, now)
    \/ \E i \in 1..Len(messages), j \in 1..3, copy \in {"inline", "strip"}, now \in Now :
          ButtonClick(i, j, copy, now)
    \/ \E call \in pending, response \in ChatResponses, now \in Now : ChatOk(call, response, now)
    \/ \E call \in pending, error \in ChatFailures, now \in Now : ChatFail(call, error, now)

Spec == Init /\ [][Next]_vars

----------------------------------------------------------------------------
(* ChatInterface.js, MessageBubble: getMessageStatus *)

IssueOf(severity) == [severity |-> severity, description |-> "issue"]

\* a tool result: result.status, result.issues and result.result.issues may each
\* be there or not
ToolResult(hasResult, status, hasIssues, issues, hasInner, innerIssues) ==
    [toolName |-> "tool", hasResult |-> hasResult,
     result |-> [status |-> status, hasIssues |-> hasIssues, issues |-> issues,
                 hasInner |-> hasInner,
                 result |-> [hasIssues |-> hasInner, issues |-> innerIssues]]]

HasWarning(issues) == \E k \in 1..Len(issues) : issues[k].severity = "warning"

\* message.toolResults.some(result => result.result?.status === 'error')
HasErrors(toolResults) ==
    \E i \in 1..Len(toolResults) :
        toolResults[i].hasResult /\ toolResults[i].result.status = "error"

\* message.toolResults.some(result =>
\*     result.result?.result?.issues?.some(issue => issue.severity === 'warning'))
HasWarnings(toolResults) ==
    \E i \in 1..Len(toolResults) :
        /\ toolResults[i].hasResult
        /\ toolResults[i].result.hasInner
        /\ toolResults[i].result.result.hasIssues
        /\ HasWarning(toolResults[i].result.result.issues)

\* mutant: the warnings are looked at before the errors
GetMessageStatus_WarningsFirst(message) ==
    IF message.hasToolResults
    THEN IF HasWarnings(message.toolResults) THEN "warning"
         ELSE IF HasErrors(message.toolResults) THEN "error"
         ELSE "success"
    ELSE "none"

\* mutant: a first-match scan, the first tool result decides
GetMessageStatus_FirstResult(message) ==
    IF message.hasToolResults
    THEN IF message.toolResults = <<>> THEN "success"
         ELSE IF HasErrors(<<message.toolResults[1]>>) THEN "error"
         ELSE IF HasWarnings(<<message.toolResults[1]>>) THEN "warning"
         ELSE "success"
    ELSE "none"

\* "none" stands for null: no status badge
GetMessageStatus(message) ==
    IF message.hasToolResults
    THEN IF HasErrors(message.toolResults) THEN "error"
         ELSE IF HasWarnings(message.toolResults) THEN "warning"
         ELSE "success"
    ELSE "none"

----------------------------------------------------------------------------
(* One /chat exchange on its own: the outcome of the call, the message built
   from it by handleSendMessage, the bubble rendered for it *)

IssueLists == {<<>>, <<IssueOf("info")>>, <<IssueOf("info"), IssueOf("warning")>>}

InnerIssueLists == {<<IssueOf("info")>>, <<IssueOf("warning")>>}

ToolResultKinds ==
    {ToolResult(FALSE, "success", FALSE, <<>>, FALSE, <<>>)} \cup
    { ToolResult(TRUE, st, hi, is, hn, ns) :
        st \in {"success", "error"},
        hi \in BOOLEAN, is \in IssueLists,
        hn \in BOOLEAN, ns \in InnerIssueLists \cup {<<>>} } 

WellFormedToolResult(t) ==
    /\ (~t.result.hasIssues => t.result.issues = <<>>)
    /\ (~t.result.hasInner => t.result.result.issues = <<>>)
    /\ (t.result.hasInner => t.result.result.issues # <<>>)

ToolResultLists ==
    UNION { [1..k -> {t \in ToolResultKinds : WellFormedToolResult(t)}] : k \in 0..MaxResults }

\* the action identifiers the buttons of a response carry
ButtonActions ==
    ActionMapKeys \cup {"unknown_xyz", "check_completeness", "", "constructor"}

IssuesTable == Table("Issues", <<"column", "issue">>, <<<<"spend", "missing">>>>)

SpendChart(chart_type) == Chart(chart_type, "Spend", <<1, 2>>)

ComponentLists ==
    { <<>>,
      <<IssuesTable, Button("Fix Issues", "fix_data", "primary")>>,
      <<Button("Get Data Insights", "get_insights", "accent"),
        OtherArtifact("map", "Regions"),
        SpendChart("line"),
        Button("Validate", "validate_data", "primary")>>,
      <<OtherArtifact("text", "Note"), SpendChart(""), IssuesTable>>,
      <<Button("Fix Issues", "fix_data", "primary"), IssuesTable,
        Button("Get Data Insights", "get_insights", "accent"),
        Button("Fix Issues", "fix_data", "primary")>> } \cup
    { <<Button("Run", a, "secondary")>> : a \in ButtonActions }

Response(message, hasComponents, components, hasToolResults, tool_results) ==
    [message |-> message, hasComponents |-> hasComponents, components |-> components,
     hasToolResults |-> hasToolResults, tool_results |-> tool_results]

ExchangeResponses ==
    { Response(<<"Analysis complete.">>, FALSE, <<>>, TRUE, t) : t \in ToolResultLists } \cup
    { Response(<<"Analysis complete.">>, TRUE, c, ht, <<>>) : c \in ComponentLists, ht \in BOOLEAN } \cup
    { Response(<<"Analysis complete.">>, FALSE, <<>>, FALSE, <<>>) }

NoBody == Response(<<>>, FALSE, <<>>, FALSE, <<>>)

NoFailure ==
    [response |-> FALSE, status |-> "0", data |-> NoData, request |-> FALSE,
     code |-> "none", message |-> <<>>]

\* inline, strip: what the bubble shows; copy, button: the button invoked;
\* sent: the text handleQuickAction passes to handleSendMessage
View(phase, ok, response, error, thrown, message, status) ==
    [phase |-> phase, ok |-> ok, response |-> response, error |-> error,
     thrown |-> thrown, message |-> message, status |-> status,
     inline |-> <<>>, strip |-> <<>>, copy |-> "none", button |-> 0, sent |-> <<>>]

Outcomes ==
    { View("received", TRUE, r, NoFailure, <<>>, WelcomeMessage(ClockStart), "none") :
        r \in ExchangeResponses } \cup
    { View("received", FALSE, NoBody, e, <<>>, WelcomeMessage(ClockStart), "none") :
        e \in AxiosErrors }

\* App.js: the try branch of handleSendMessage after the await
Resolve ==
    /\ view.phase = "received"
    /\ view.ok
    /\ view' = [view EXCEPT !.phase = "built",
                            !.message = AgentMessage(view.response, clock, 1)]
    /\ UNCHANGED <<appStatus, messages, isDataLoaded, dataPath, inputValue, inputPath,
                   sidebarLoading, pending, clock, started, issued, exits>>

\* the response interceptor rejects, the catch branch of handleSendMessage runs
Reject ==
    /\ view.phase = "received"
    /\ ~view.ok
    /\ view' = [view EXCEPT !.phase = "built",
                            !.thrown = InterceptError(view.error),
                            !.message = ChatErrorMessage(InterceptError(view.error), clock, 1)]
    /\ UNCHANGED <<appStatus, messages, isDataLoaded, dataPath, inputValue, inputPath,
                   sidebarLoading, pending, clock, started, issued, exits>>

\* MessageBubble renders the message
RenderBubble ==
    /\ view.phase = "built"
    /\ view' = [view EXCEPT !.phase = "rendered",
                            !.status = GetMessageStatus(view.message),
                            !.inline = Inline(view.message),
                            !.strip = Strip(view.message)]
    /\ UNCHANGED <<appStatus, messages, isDataLoaded, dataPath, inputValue, inputPath,
                   sidebarLoading, pending, clock, started, issued, exits>>

ExchangeInit ==
    /\ appStatus = "processing"
    /\ clock = ClockStart
    /\ messages = <<WelcomeMessage(ClockStart)>>
    /\ isDataLoaded = FALSE
    /\ dataPath = <<>>
    /\ inputValue = <<>>
    /\ inputPath = DefaultInputPath
    /\ sidebarLoading = FALSE
    /\ pending = {}
    /\ started = TRUE
    /\ issued = 0
    /\ exits = <<>>
    /\ view \in Outcomes

\* a button of the bubble is invoked: onQuickAction(action), handleQuickAction
Click(copy, j) ==
    /\ view.phase = "rendered"
    /\ j \in 1..Len(view[copy])
    /\ view[copy][j].element = "ActionButton"
    /\ view' = [view EXCEPT !.phase = "clicked", !.copy = copy, !.button = j,
                            !.sent = ResolveAction(view[copy][j].onClick)]
    /\ UNCHANGED <<appStatus, messages, isDataLoaded, dataPath, inputValue, inputPath,
                   sidebarLoading, pending, clock, started, issued, exits>>

ExchangeNext ==
    \/ Resolve
    \/ Reject
    \/ RenderBubble
    \/ \E copy \in {"inline", "strip"} : \E j \in 1..Len(view[copy]) : Click(copy, j)

ExchangeSpec == ExchangeInit /\ [][ExchangeNext]_vars

\* every issued call completes: each call has the 30000 ms timeout of the client
Completion ==
    \E call \in pending, now \in Now :
        \/ HealthOk(call)
        \/ UploadOk(call, now)
        \/ \E response \in ChatResponses : ChatOk(call, response, now)
        \/ \E error \in GatewayFailures :
              \/ HealthFail(call, error)
              \/ UploadFail(call, error, now)
              \/ ChatFail(call, error, now)

FairSpec == Spec /\ WF_vars(Completion)

----------------------------------------------------------------------------
(* The text input of ChatInterface.js on its own: typing, submit events, and the
   chat turns they start, in a session whose health check has succeeded *)

FormValues ==
    { <<>>, <<Blank>>, <<Blank, Blank>>,
      <<"how many rows?">>,
      <<"why?", Blank>>,
      <<Blank, "fix", Blank, "it", Blank>> }

\* handleSubmit, the branch not taken: a submit event (Enter in the text area,
\* which is disabled while isLoading) with nothing to send
HandleSubmitDropped ==
    /\ started
    /\ ~IsLoading
    /\ ~(Trim(inputValue) # <<>> /\ ~IsLoading)
    /\ view' = [phase |-> "dropped", value |-> inputValue]
    /\ UNCHANGED <<appStatus, messages, isDataLoaded, dataPath, inputValue, inputPath,
                   sidebarLoading, pending, clock, started, issued, exits>>

FormInit ==
    /\ appStatus = "connected"
    /\ clock = ClockStart
    /\ messages = <<WelcomeMessage(ClockStart)>>
    /\ isDataLoaded = FALSE
    /\ dataPath = <<>>
    /\ inputValue = <<>>
    /\ inputPath = DefaultInputPath
    /\ sidebarLoading = FALSE
    /\ pending = {}
    /\ started = TRUE
    /\ issued = 1
    /\ exits = <<1>>
    /\ view = NoView

FormNext ==
    \/ \E value \in FormValues : SetInputValue(value)
    \/ \E now \in Now : HandleSubmit(now)
    \/ HandleSubmitDropped
    \/ \E call \in pending, response \in ChatResponses, now \in Now : ChatOk(call, response, now)
    \/ \E call \in pending, error \in ChatFailures, now \in Now : ChatFail(call, error, now)

FormSpec == FormInit /\ [][FormNext]_vars

----------------------------------------------------------------------------
(* Properties of the session *)

Last(s) == s[Len(s)]

\* one message has been added at the end of the log, the rest is untouched
AppendedOne ==
    /\ Len(messages') = Len(messages) + 1
    /\ SubSeq(messages', 1, Len(messages)) = messages

\* C1: the conversation log is append-only: every step leaves the log as it is
\* or adds exactly one message at its end
C1_AppendOnly == [][messages' = messages \/ AppendedOne]_vars

C1_Witness ==
    /\ Len(messages) >= 4
    /\ \E i, j \in 1..Len(messages) :
          /\ messages[i].type = "user"
          /\ messages[j].type = "agent" /\ messages[j].components # <<>>

\* C2: the ids of the messages in the log are pairwise distinct
C2_UniqueIds ==
    \A i, j \in 1..Len(messages) : i # j => messages[i].id # messages[j].id

ChatIssued == \E call \in pending' \ pending : call.op = "chat"

\* C3: a chat turn is issued only while the status is neither loading nor processing
C3_RejectedWhileBusy ==
    [][ChatIssued => appStatus \notin {"loading", "processing"}]_vars

\* the agent messages that answer chat turns
ChatReplies ==
    { i \in 1..Len(messages) :
        /\ messages[i].type = "agent"
        /\ \E k \in 1..Len(messages) :
              messages[k].type = "user" /\ messages[k].turn = messages[i].turn }

\* C4: the agent messages answering chat turns are in the log in the order in
\* which the turns were submitted
C4_RepliesInSubmissionOrder ==
    \A i, j \in ChatReplies : i < j => messages[i].turn < messages[j].turn

\* C5: with the health check issued and no call outstanding the status is not busy
C5_NoStaleBusy == (started /\ pending = {}) => appStatus \notin Busy

C5_Witness ==
    /\ started /\ pending = {} /\ issued >= 3
    /\ appStatus = "error"
    /\ \E i \in 1..Len(messages) : messages[i].type = "user"

ExitsOnce ==
    \A n \in 1..issued :
        exits[n] = IF \E call \in pending : call.n = n THEN 0 ELSE 1

\* C6: a busy status is always followed by a status that is not busy, and every
\* call makes exactly one completion transition of the status, at its completion
C6_BusyEnds ==
    /\ (appStatus \in Busy) ~> (appStatus \notin Busy)
    /\ []ExitsOnce

C6_Witness ==
    /\ issued >= 3 /\ pending = {}
    /\ appStatus \notin Busy
    /\ \A n \in 1..issued : exits[n] = 1

\* the failure is shown as one agent message carrying the text, without components,
\* and the status is error
FailureSurfaced(text) ==
    /\ AppendedOne
    /\ Last(messages').type = "agent"
    /\ Contains(Last(messages').content, text)
    /\ Last(messages').hasComponents /\ Last(messages').components = <<>>
    /\ appStatus' = "error"

\* C7 as stated: every gateway failure, the health check's included, appends one
\* agent message with the error text and sets the status to error
C7_EveryFailureSurfaced ==
    [][\A call \in pending, error \in GatewayFailures, now \in Now :
          (HealthFail(call, error) \/ UploadFail(call, error, now) \/ ChatFail(call, error, now))
              => FailureSurfaced(InterceptError(error))]_vars

\* C7: a failed registration or chat turn appends one agent message with the error
\* text and no components and sets the status to error; a failed health check
\* appends nothing and sets the status to disconnected
C7_FailuresSurfaced ==
    [][\A call \in pending, error \in GatewayFailures, now \in Now :
          /\ (UploadFail(call, error, now) \/ ChatFail(call, error, now))
                => FailureSurfaced(InterceptError(error))
          /\ HealthFail(call, error)
                => (messages' = messages /\ appStatus' = "disconnected")]_vars

C7_Witness ==
    /\ appStatus = "error"
    /\ \E i, j \in 1..Len(messages) :
          /\ i < j
          /\ Contains(messages[i].content, <<"detail text">>)
          /\ Contains(messages[j].content, CannotConnectText)

NoResponse(error) == ~error.response /\ error.request

\* C8 as stated: a chat turn without response takes the status from processing to
\* error and appends one agent message containing "cannot reach backend"
C8_CannotReachBackend ==
    [][\A call \in pending, error \in GatewayFailures, now \in Now :
          (NoResponse(error) /\ ChatFail(call, error, now))
              => /\ appStatus = "processing"
                 /\ FailureSurfaced(<<"cannot reach backend">>)]_vars

\* C8: a chat turn without response (network failure or timeout) sets the status
\* to error and appends one agent message containing the client's fixed text
\* "Cannot connect to server. Please make sure the backend is running."
C8_CannotConnect ==
    [][\A call \in pending, error \in GatewayFailures, now \in Now :
          (NoResponse(error) /\ ChatFail(call, error, now))
              => FailureSurfaced(CannotConnectText)]_vars

C8_Witness ==
    /\ appStatus = "error"
    /\ Len(messages) >= 3
    /\ Last(messages).type = "agent"
    /\ Last(messages).id = Last(messages).timestamp + 1
    /\ Contains(Last(messages).content, CannotConnectText)

HealthIssued == \E call \in pending' \ pending : call.op = "health"

\* C18: the mount step takes the status from idle to connecting and issues one
\* health check, and no other step issues one; the success of the health check sets
\* the status to connected, its failure sets it to disconnected, and neither
\* changes the log or the data-loaded flag
C18_HealthCheckOnStart ==
    [][/\ Mount => /\ appStatus = "idle" /\ appStatus' = "connecting"
                   /\ Cardinality(pending' \ pending) = 1
                   /\ HealthIssued
       /\ HealthIssued => (~started /\ started' /\ issued = 0)
       /\ \A call \in pending, error \in GatewayFailures :
             /\ HealthOk(call) =>
                   (appStatus' = "connected" /\ UNCHANGED <<messages, isDataLoaded>>)
             /\ HealthFail(call, error) =>
                   (appStatus' = "disconnected" /\ UNCHANGED <<messages, isDataLoaded>>)]_vars

C18_Witness ==
    /\ started /\ issued = 1 /\ pending = {}
    /\ exits = <<1>>
    /\ appStatus = "disconnected"
    /\ Len(messages) = 1 /\ ~isDataLoaded

UploadIssued == \E call \in pending' \ pending : call.op = "upload"

\* a path to register is at hand: the Load form holds one, or Run Full Analysis
\* is shown
CanRequestRegistration ==
    /\ started
    /\ UserCalls < MaxCalls
    /\ isDataLoaded \/ Trim(inputPath) # <<>>

\* C19: a registration can be requested whatever the status is, and the request
\* sets the status to loading; its success sets the status to connected, sets the
\* data-loaded flag and records the path; its failure sets the status to error and
\* leaves the flag and the recorded path as they are
C19_Registration ==
    /\ [](CanRequestRegistration => ENABLED (LoadEnter \/ RunFullAnalysis))
    /\ [][/\ UploadIssued => appStatus' = "loading"
           /\ \A call \in pending, error \in GatewayFailures, now \in Now :
                 /\ UploadOk(call, now) =>
                       /\ appStatus' = "connected"
                       /\ isDataLoaded'
                       /\ dataPath' = call.arg
                 /\ UploadFail(call, error, now) =>
                       /\ appStatus' = "error"
                       /\ UNCHANGED <<isDataLoaded, dataPath>>]_vars

C19_Witness ==
    /\ appStatus = "connected" /\ pending = {}
    /\ isDataLoaded /\ dataPath = DefaultInputPath
    /\ Len(messages) = 3
    /\ Contains(messages[2].content, <<"detail text">>)
    /\ messages[3].components = UploadSuccessButtons

\* C20: a chat turn that is issued sets the status to processing; its success sets
\* the status to connected and appends the agent message built from the response;
\* its failure sets the status to error
C20_ChatTurn ==
    [][/\ ChatIssued => appStatus' = "processing"
       /\ \A call \in pending, now \in Now :
             /\ \A response \in ChatResponses :
                   ChatOk(call, response, now) =>
                       /\ appStatus' = "connected"
                       /\ AppendedOne
                       /\ Last(messages').type = "agent"
                       /\ Last(messages').content = response.message
                       /\ Last(messages').components =
                             IF response.hasComponents THEN response.components ELSE <<>>
                       /\ Last(messages').toolResults =
                             IF response.hasToolResults THEN response.tool_results ELSE <<>>
             /\ \A error \in GatewayFailures :
                   ChatFail(call, error, now) => appStatus' = "error"]_vars

C20_Witness ==
    /\ appStatus = "connected" /\ pending = {}
    /\ Len(messages) = 3
    /\ messages[2].type = "user"
    /\ messages[3].type = "agent"
    /\ messages[3].content = <<"Your data looks fine.">>
    /\ messages[3].turn = messages[2].turn

BusyOf(op) ==
    CASE op = "health" -> "connecting"
      [] op = "upload" -> "loading"
      [] op = "chat" -> "processing"

\* C21: a call is outstanding only with the busy status of its operation already
\* set, and the status makes a completion transition (to connected, disconnected
\* or error) only in the step that takes the call's response or error
C21_TransitionsAroundCall ==
    [][/\ \A call \in pending' \ pending : appStatus' = BusyOf(call.op)
       /\ (appStatus' \in Busy /\ appStatus' # appStatus) => pending' \ pending # {}
       /\ (appStatus' \notin Busy /\ appStatus' # appStatus) =>
             /\ pending \ pending' # {}
             /\ appStatus' \in {"connected", "disconnected", "error"}
       /\ \A n \in 1..issued :
             (exits'[n] # exits[n]) => (\E call \in pending \ pending' : call.n = n)]_vars

C21_Witness ==
    /\ appStatus = "processing"
    /\ \E c, d \in pending : c.op = "health" /\ d.op = "chat"
    /\ exits = <<0, 0>>

\* C22: no step takes the status from error to connected. An operation started
\* while the status is error first sets a busy status, so that such a step is the
\* completion of an operation started before the status became error
C22_RecoveryOnlyByFreshOperation ==
    [][appStatus = "error" => appStatus' # "connected"]_vars

UserAction ==
    \/ LoadClick
    \/ LoadEnter
    \/ RunFullAnalysis
    \/ \E now \in Now :
          \/ HandleSubmit(now)
          \/ \E text \in WelcomeSuggestions : WelcomeSuggestion(text, now)
          \/ \E action \in QuickActionSuggestions : QuickSuggestion(action, now)
          \/ \E i \in 1..Len(messages), j \in 1..3, copy \in {"inline", "strip"} :
                ButtonClick(i, j, copy, now)

\* C23: the mount step and every user action issue exactly one call, no other
\* step issues a call, and the step that takes a call's response or error issues
\* none
C23_NoAutoRetry ==
    [][/\ (Mount \/ UserAction) =>
             /\ issued' = issued + 1
             /\ pending \subseteq pending'
             /\ Cardinality(pending' \ pending) = 1
       /\ pending' \ pending # {} => (Mount \/ UserAction)
       /\ pending \ pending' # {} => (pending' \subseteq pending /\ issued' = issued)]_vars

C23_Witness ==
    /\ pending = {} /\ issued = 3
    /\ exits = <<1, 1, 1>>
    /\ appStatus = "error"
    /\ Len(messages) = 3
    /\ Contains(messages[2].content, <<"detail text">>)
    /\ Contains(messages[3].content, <<"detail text">>)

\* C24: while a call is outstanding the status is connecting, loading or processing
C24_BusyWhileOutstanding == pending # {} => appStatus \in Busy

UserMessagesOf(n) == {i \in 1..Len(messages) : messages[i].type = "user" /\ messages[i].turn = n}

AgentMessagesOf(n) == {i \in 1..Len(messages) : messages[i].type = "agent" /\ messages[i].turn = n}

\* C25: a chat turn has exactly one user message in the log from the moment its
\* call is issued, no agent message while the call is outstanding and exactly one
\* once it has completed, and its user message stands before its agent message
C25_OneMessagePerTurnAndRole ==
    /\ \A call \in pending :
          call.op = "chat" =>
              (Cardinality(UserMessagesOf(call.n)) = 1 /\ AgentMessagesOf(call.n) = {})
    /\ \A n \in 1..issued :
          /\ Cardinality(UserMessagesOf(n)) <= 1
          /\ Cardinality(AgentMessagesOf(n)) <= 1
          /\ (UserMessagesOf(n) # {} /\ (\A call \in pending : call.n # n)) =>
                /\ Cardinality(AgentMessagesOf(n)) = 1
                /\ \A i \in UserMessagesOf(n), j \in AgentMessagesOf(n) : i < j

C25_Witness ==
    /\ pending = {} /\ Len(messages) = 5
    /\ messages[2].type = "user" /\ messages[3].type = "user"
    /\ messages[4].turn = messages[3].turn
    /\ messages[5].turn = messages[2].turn
    /\ Contains(messages[5].content, CannotConnectText)

\* C26: at most one registration call is outstanding at any time
C26_OneRegistrationInFlight ==
    Cardinality({call \in pending : call.op = "upload"}) <= 1

\* C27: with the data-loaded flag set the recorded path is not empty and is
\* trimmed, and no registration call carries an empty path
C27_PathNeverEmpty ==
    /\ isDataLoaded => (dataPath # <<>> /\ Head(dataPath) # Blank /\ Last(dataPath) # Blank)
    /\ \A call \in pending : call.op = "upload" => call.arg # <<>>

\* C28: the data-loaded flag starts false, is set only by the step that takes the
\* success of a registration call, and is never cleared
C28_DataLoadedMonotone ==
    /\ ~isDataLoaded
    /\ [][/\ isDataLoaded => isDataLoaded'
          /\ (~isDataLoaded /\ isDataLoaded') =>
                /\ \E call \in pending \ pending' : call.op = "upload"
                /\ appStatus' = "connected"
                /\ Last(messages').components = UploadSuccessButtons]_vars

C28_Witness ==
    /\ isDataLoaded /\ pending = {}
    /\ appStatus = "error"
    /\ Len(messages) = 4
    /\ messages[2].components = UploadSuccessButtons
    /\ messages[3].type = "user"
    /\ Contains(messages[4].content, CannotConnectText)

\* C29: the timestamps of the messages do not decrease along the log
C29_TimestampsInLogOrder ==
    \A i, j \in 1..Len(messages) : i < j => messages[i].timestamp <= messages[j].timestamp

C29_Witness ==
    /\ Len(messages) = 5
    /\ \E i \in 1..4 : messages[i].timestamp < messages[i + 1].timestamp
    /\ \E i \in 1..4 : messages[i].timestamp = messages[i + 1].timestamp
    /\ messages[4].turn # messages[5].turn
    /\ messages[5].type = "agent" /\ messages[4].type = "agent"

----------------------------------------------------------------------------
(* Properties of the text input *)

AllBlank(s) == \A k \in 1..Len(s) : s[k] = Blank

\* t is s without its leading and trailing blanks
Stripped(t, s) ==
    /\ t # <<>>
    /\ t[1] # Blank /\ t[Len(t)] # Blank
    /\ \E i \in 1..Len(s) :
          /\ i + Len(t) - 1 <= Len(s)
          /\ SubSeq(s, i, i + Len(t) - 1) = t
          /\ \A k \in 1..Len(s) : (k < i \/ k >= i + Len(t)) => s[k] = Blank

\* C30: a submit event with an empty or all-blank text changes neither the log nor
\* the status nor the text and starts no chat turn; an accepted submission starts
\* a chat turn with the text stripped of its leading and trailing blanks, appends
\* that text as the user message and empties the input
C30_SubmitFrame ==
    [][/\ AllBlank(inputValue) => ~ChatIssued
       /\ HandleSubmitDropped =>
             /\ AllBlank(inputValue)
             /\ UNCHANGED <<messages, appStatus, inputValue, pending>>
       /\ \A now \in Now :
             HandleSubmit(now) =>
                 /\ ~AllBlank(inputValue)
                 /\ inputValue' = <<>>
                 /\ AppendedOne
                 /\ Last(messages').type = "user"
                 /\ Stripped(Last(messages').content, inputValue)
                 /\ \E call \in pending' \ pending :
                       call.op = "chat" /\ call.arg = Last(messages').content]_vars

C30_Witness ==
    /\ view = [phase |-> "dropped", value |-> <<Blank, Blank>>]
    /\ inputValue = <<Blank, Blank>>
    /\ Len(messages) >= 2
    /\ messages[2].type = "user"
    /\ messages[2].content = <<"fix", Blank, "it">>

----------------------------------------------------------------------------
(* Properties of one exchange *)

Rejected == view.phase # "received" /\ ~view.ok

\* C9 as stated: detail if present, else message if present, else
\* "server error: <status>"
C9_DetailIfPresent ==
    (Rejected /\ view.error.response) =>
        /\ view.thrown =
              IF view.error.data.hasDetail THEN view.error.data.detail
              ELSE IF view.error.data.hasMessage THEN view.error.data.message
              ELSE <<"server error: ", view.error.status>>
        /\ view.thrown # CannotConnectText

\* C9: for a response with a non-2xx status the error text is the detail field if
\* it is present and not empty, otherwise the message field if it is present and
\* not empty, otherwise "Server error: <status>"; it is never the text of a
\* connectivity error
C9_ServerErrorText ==
    (Rejected /\ view.error.response) =>
        /\ view.thrown =
              IF view.error.data.hasDetail /\ view.error.data.detail # <<>>
              THEN view.error.data.detail
              ELSE IF view.error.data.hasMessage /\ view.error.data.message # <<>>
                   THEN view.error.data.message
                   ELSE <<"Server error: ", view.error.status>>
        /\ view.thrown # CannotConnectText

C9_Witness ==
    /\ Rejected /\ view.error.response
    /\ view.error.data.hasDetail /\ view.error.data.detail = <<>>
    /\ view.error.data.hasMessage /\ view.thrown = view.error.data.message
    /\ view.thrown # <<>>

\* C10: a message whose tool results include one with result.status = error has
\* the status error, wherever that result stands and whatever the others carry
C10_ErrorWins ==
    (/\ view.phase = "rendered" /\ view.ok
     /\ view.response.hasToolResults
     /\ \E i \in 1..Len(view.response.tool_results) :
           /\ view.response.tool_results[i].hasResult
           /\ view.response.tool_results[i].result.status = "error")
        => view.status = "error"

C10_Witness ==
    /\ view.phase = "rendered" /\ view.ok
    /\ Len(view.response.tool_results) = 2
    /\ view.response.tool_results[1].result.status = "success"
    /\ HasWarnings(<<view.response.tool_results[1]>>)
    /\ view.response.tool_results[2].hasResult
    /\ view.response.tool_results[2].result.status = "error"
    /\ view.status = "error"

Built == view.phase \in {"built", "rendered", "clicked"}

Rendered == view.phase \in {"rendered", "clicked"}

\* a tool result of the shape {toolName, result: {status, issues}} with a warning
IssuesWarning(t) == t.hasResult /\ t.result.hasIssues /\ HasWarning(t.result.issues)

\* a warning at either place a tool result can carry issues
AnyWarning(t) ==
    \/ IssuesWarning(t)
    \/ t.hasResult /\ t.result.hasInner /\ HasWarning(t.result.result.issues)

StatusError(t) == t.hasResult /\ t.result.status = "error"

\* C11: with no tool result of status error, the status is warning when a tool
\* result {toolName, result: {status, issues}} has an issue of severity warning,
\* and success when the list is not empty and no issue has severity warning
C11_WarningFromIssues ==
    (/\ Rendered /\ view.ok
     /\ \A i \in 1..Len(view.message.toolResults) : ~StatusError(view.message.toolResults[i]))
        => /\ (\E i \in 1..Len(view.message.toolResults) :
                   IssuesWarning(view.message.toolResults[i]))
                 => view.status = "warning"
           /\ (/\ view.message.toolResults # <<>>
               /\ \A i \in 1..Len(view.message.toolResults) :
                     ~AnyWarning(view.message.toolResults[i]))
                 => view.status = "success"

\* C12: a response with components: [] and tool_results: [] gives a message whose
\* components and toolResults are both defined and empty, and its status is none
C12_EmptyRoundTrip ==
    (/\ Built /\ view.ok
     /\ view.response.hasComponents /\ view.response.components = <<>>
     /\ view.response.hasToolResults /\ view.response.tool_results = <<>>)
        => /\ view.message.hasComponents /\ view.message.components = <<>>
           /\ view.message.hasToolResults /\ view.message.toolResults = <<>>
           /\ Rendered => view.status = "none"

Permute(s, p) == [i \in 1..Len(s) |-> s[p[i]]]

\* C13: the status of a message is the status of the same message with its tool
\* results in any other order
C13_PermutationInvariant ==
    (Rendered /\ view.message.hasToolResults) =>
        \A p \in Permutations(1..Len(view.message.toolResults)) :
            GetMessageStatus([view.message EXCEPT
                                 !.toolResults = Permute(view.message.toolResults, p)])
                = view.status

C13_Witness ==
    /\ Rendered /\ view.ok
    /\ Len(view.message.toolResults) = MaxResults
    /\ ~StatusError(view.message.toolResults[1])
    /\ ~AnyWarning(view.message.toolResults[1])
    /\ AnyWarning(view.message.toolResults[MaxResults])
    /\ view.status = "warning"

\* C14: a field the response omits (components, tool_results) is an empty sequence
\* in the message built from it, so that every field the bubble and the status
\* derivation read is defined, and the bubble shows no artifact and no strip for
\* omitted components
C14_OmittedFieldsDefault ==
    (Built /\ view.ok) =>
        /\ ~view.response.hasComponents =>
              /\ view.message.hasComponents /\ view.message.components = <<>>
              /\ Rendered => (view.inline = <<>> /\ view.strip = <<>>)
        /\ ~view.response.hasToolResults =>
              /\ view.message.hasToolResults /\ view.message.toolResults = <<>>

C14_Witness ==
    /\ Rendered /\ view.ok
    /\ ~view.response.hasComponents /\ ~view.response.hasToolResults
    /\ view.message.components = <<>> /\ view.message.toolResults = <<>>
    /\ view.inline = <<>>

\* the action identifier of the button invoked
Invoked == view[view.copy][view.button].onClick

\* C15: an identifier of the mapping resolves to its prompt, any other identifier
\* resolves to itself, and the resolved text is what handleSendMessage is given
C15_ResolveTotal ==
    view.phase = "clicked" =>
        /\ Invoked = "validate_data" => view.sent = <<"Please validate my data quality">>
        /\ Invoked \in ActionMapKeys => view.sent = ActionMap(Invoked)
        /\ Invoked \notin ActionMapKeys => view.sent = <<Invoked>>

IsActionButton(e) == e.element = "ActionButton"

SameButton(e, c) == e.text = c.text /\ e.onClick = c.action /\ e.style = c.style

\* C16: the buttons among the components of a message are shown once each among
\* the inline elements and once each in the strip, in the order of the components;
\* invoking either copy of a get_insights button sends
\* "Please give me insights about my campaign data"
C16_ButtonsShownTwice ==
    /\ Rendered =>
          LET buttons == SelectSeq(view.message.components, IsButton)
              inlineButtons == SelectSeq(view.inline, IsActionButton)
          IN /\ Len(inlineButtons) = Len(buttons)
             /\ Len(view.strip) = Len(buttons)
             /\ \A j \in 1..Len(buttons) :
                   /\ SameButton(inlineButtons[j], buttons[j])
                   /\ SameButton(view.strip[j], buttons[j])
                   /\ IsActionButton(view.strip[j])
    /\ (view.phase = "clicked" /\ Invoked = "get_insights") =>
          view.sent = <<"Please give me insights about my campaign data">>

C16_Witness ==
    /\ view.phase = "clicked"
    /\ view.copy = "strip" /\ view.button = 2
    /\ Len(view.strip) = 3 /\ Len(view.inline) = 4
    /\ view.inline[3].onClick = "get_insights"
    /\ view.sent = <<"Please give me insights about my campaign data">>

RecognizedTypes == {"table", "chart", "button"}

\* C17: the bubble has one element per component, in the order of the components:
\* nothing for a type other than table, chart and button, and the element of its
\* own type for a table, a chart and a button
C17_UnknownArtifactDropped ==
    (Rendered /\ view.message.components # <<>>) =>
        /\ Len(view.inline) = Len(view.message.components)
        /\ \A j \in 1..Len(view.message.components) :
              LET c == view.message.components[j]
                  e == view.inline[j]
              IN /\ c.type \notin RecognizedTypes => e = Null
                 /\ c.type = "table" =>
                       (e.element = "DataTable" /\ e.key = j - 1 /\ e.title = c.title)
                 /\ c.type = "chart" =>
                       (e.element = "DataChart" /\ e.key = j - 1 /\ e.title = c.title)
                 /\ c.type = "button" =>
                       (e.element = "ActionButton" /\ e.key = j - 1 /\ e.text = c.text)

C17_Witness ==
    /\ Rendered
    /\ \E j, k \in 1..Len(view.inline) :
          /\ j < k
          /\ view.message.components[j].type \notin RecognizedTypes
          /\ view.inline[j] = Null
          /\ view.inline[k].element = "DataChart"
          /\ view.inline[Len(view.inline)].element = "ActionButton"

====
